---- MODULE Spec2Model ----
(***************************************************************************)
(* Model of telethon/types/_custom/button.py: the Button constructors and  *)
(* build_reply_markup.                                                     *)
(*                                                                         *)
(* Python values are records carrying a "tag": the class of the object.    *)
(*   None                      [tag |-> "None"]                            *)
(*   a list                    [tag |-> "list", items |-> <<...>>]         *)
(*   a str / bytes             [tag |-> "str" / "bytes", v |-> <<...>>]    *)
(*   a _tl object              [tag |-> <class name>, <fields>]            *)
(*   a Button descriptor       [tag |-> "Button", button, resize, ...]     *)
(*   a MessageButton           [tag |-> "MessageButton", button]           *)
(* A str is its sequence of code points, a bytes its sequence of bytes.    *)
(* The three-valued hints are the strings "None", "True" and "False".      *)
(***************************************************************************)
EXTENDS Integers, Sequences, FiniteSets, TLC

VARIABLES buttons, inline_only, pc, result, arg_text, arg_data, made

vars == <<buttons, inline_only, pc, result, arg_text, arg_data, made>>

(***************************************************************************)
(* Bounds of the model.                                                    *)
(***************************************************************************)
\* Buttons the caller puts in one input of build_reply_markup.
MaxButtons == 2
\* Rows the caller puts in one input grid.
MaxRows == 2
\* How far past the 64 byte limit the payloads of Button.inline reach.
MaxOver == 2
\* Distinct byte patterns of a payload (what "exactly d" is checked on).
MaxSeed == 1

(***************************************************************************)
(* Program constants.                                                      *)
(***************************************************************************)
\* len(data) > 64
DataLimit == 64
\* buttons.SUBCLASS_OF_ID == 0xe2e10ef2, crc32(b'ReplyMarkup')
ReplyMarkupId == "0xe2e10ef2"
\* button.SUBCLASS_OF_ID == 0xbad74a3, crc32(b'KeyboardButton')
KeyboardButtonId == "0xbad74a3"

None == "None"
True == "True"
False == "False"
HintValues == {None, True, False}

NoneV == [tag |-> "None"]
List(items) == [tag |-> "list", items |-> items]
Str(v) == [tag |-> "str", v |-> v]
Bytes(v) == [tag |-> "bytes", v |-> v]

\* Python's truth value of an object (`not x`, `x or y`).
Truthy(v) ==
    CASE v.tag = "None" -> FALSE
      [] v.tag = "list" -> Len(v.items) > 0
      [] v.tag \in {"str", "bytes"} -> Len(v.v) > 0
      [] OTHER -> TRUE

(***************************************************************************)
(* str.encode('utf-8')                                                     *)
(***************************************************************************)
Utf8Char(c) ==
    IF c < 128 THEN <<c>>
    ELSE IF c < 2048 THEN <<192 + (c \div 64), 128 + (c % 64)>>
    ELSE IF c < 65536
         THEN <<224 + (c \div 4096), 128 + ((c \div 64) % 64), 128 + (c % 64)>>
    ELSE <<240 + (c \div 262144), 128 + ((c \div 4096) % 64),
           128 + ((c \div 64) % 64), 128 + (c % 64)>>

RECURSIVE Utf8(_)
Utf8(s) == IF s = <<>> THEN <<>> ELSE Utf8Char(Head(s)) \o Utf8(Tail(s))

encode(s) == Bytes(Utf8(s.v))

(***************************************************************************)
(* The outcome of a call: a returned value or a raised exception.          *)
(***************************************************************************)
Return(v) == [tag |-> "return", value |-> v]
Raise(exc, msg) == [tag |-> "raise", exc |-> exc, msg |-> msg]
NotCalled == [tag |-> "not called"]

(***************************************************************************)
(* Button.inline                                                           *)
(***************************************************************************)
KeyboardButtonCallback(t, d) ==
    [tag |-> "KeyboardButtonCallback", text |-> t, data |-> d]

\* The payload after the defaulting and conversion of lines 82-85.
inline_data(t, d) ==
    IF ~Truthy(d) THEN encode(t)
    ELSE IF d.tag # "bytes" THEN encode(d)
    ELSE d

inline(t, d) ==
    LET dd == inline_data(t, d)
    IN  IF Len(dd.v) > DataLimit
        THEN Raise("ValueError", "Too many bytes for the data")
        ELSE Return(KeyboardButtonCallback(t, dd))

(***************************************************************************)
(* The other constructors of class Button.                                 *)
(***************************************************************************)
InputUserSelf == [tag |-> "InputUserSelf"]

\* utils.get_input_user on a value that already is an input user.
get_input_user(entity) == entity

\* Button.__init__
Button(button, resize, single_use, selective) ==
    [tag |-> "Button", button |-> button, resize |-> resize,
     single_use |-> single_use, selective |-> selective]

switch_inline(t, query, same_peer) ==
    [tag |-> "KeyboardButtonSwitchInline", text |-> t, query |-> query,
     same_peer |-> same_peer]

url(t, u) ==
    [tag |-> "KeyboardButtonUrl", text |-> t, url |-> IF Truthy(u) THEN u ELSE t]

auth(t, u, bot, write_access, fwd_text) ==
    [tag |-> "InputKeyboardButtonUrlAuth", text |-> t,
     url |-> IF Truthy(u) THEN u ELSE t,
     bot |-> get_input_user(IF Truthy(bot) THEN bot ELSE InputUserSelf),
     request_write_access |-> write_access, fwd_text |-> fwd_text]

mention(t, input_entity) ==
    [tag |-> "InputKeyboardButtonUserProfile", text |-> t,
     user_id |-> get_input_user(IF Truthy(input_entity) THEN input_entity
                                ELSE InputUserSelf)]

text(t, resize, single_use, selective) ==
    Button([tag |-> "KeyboardButton", text |-> t],
           resize, single_use, selective)

request_location(t, resize, single_use, selective) ==
    Button([tag |-> "KeyboardButtonRequestGeoLocation", text |-> t],
           resize, single_use, selective)

request_phone(t, resize, single_use, selective) ==
    Button([tag |-> "KeyboardButtonRequestPhone", text |-> t],
           resize, single_use, selective)

request_poll(t, force_quiz, resize, single_use, selective) ==
    Button([tag |-> "KeyboardButtonRequestPoll", text |-> t, quiz |-> force_quiz],
           resize, single_use, selective)

clear(selective) == [tag |-> "ReplyKeyboardHide", selective |-> selective]

force_reply(single_use, selective, placeholder) ==
    [tag |-> "ReplyKeyboardForceReply", single_use |-> single_use,
     selective |-> selective, placeholder |-> placeholder]

buy(t) == [tag |-> "KeyboardButtonBuy", text |-> t]

game(t) == [tag |-> "KeyboardButtonGame", text |-> t]

\* A button of a received message, as MessageButton wraps it.
MessageButton(button) == [tag |-> "MessageButton", button |-> button]

(***************************************************************************)
(* What build_reply_markup asks of its collaborators.                      *)
(***************************************************************************)
\* utils.is_list_like
is_list_like(obj) == obj.tag = "list"

\* The classes of _tl that are reply markups and those that are buttons.
ReplyMarkupClasses ==
    {"ReplyInlineMarkup", "ReplyKeyboardMarkup", "ReplyKeyboardHide",
     "ReplyKeyboardForceReply"}

KeyboardButtonClasses ==
    {"KeyboardButton", "KeyboardButtonUrl", "KeyboardButtonCallback",
     "KeyboardButtonRequestPhone", "KeyboardButtonRequestGeoLocation",
     "KeyboardButtonSwitchInline", "KeyboardButtonGame", "KeyboardButtonBuy",
     "InputKeyboardButtonUrlAuth", "KeyboardButtonRequestPoll",
     "InputKeyboardButtonUserProfile", "KeyboardButtonUserProfile"}

\* obj.SUBCLASS_OF_ID; "AttributeError" for an object that has none.
SUBCLASS_OF_ID(obj) ==
    IF obj.tag \in ReplyMarkupClasses THEN ReplyMarkupId
    ELSE IF obj.tag \in KeyboardButtonClasses THEN KeyboardButtonId
    ELSE "AttributeError"

(***************************************************************************)
(* Button._is_inline                                                       *)
(***************************************************************************)
_is_inline(button) ==
    button.tag \in {"KeyboardButtonBuy", "KeyboardButtonCallback",
                    "KeyboardButtonGame", "KeyboardButtonSwitchInline",
                    "KeyboardButtonUserProfile", "KeyboardButtonUrl",
                    "InputKeyboardButtonUrlAuth"}

(***************************************************************************)
(* build_reply_markup, on an argument of type hints.MarkupLike: None, a    *)
(* reply markup, a button, a list of buttons or a list of lists of         *)
(* buttons, where a button is a Button, a MessageButton or a _tl object.   *)
(***************************************************************************)
KeyboardButtonRow(row) == [tag |-> "KeyboardButtonRow", buttons |-> row]

ReplyInlineMarkup(rows) == [tag |-> "ReplyInlineMarkup", rows |-> rows]

ReplyKeyboardMarkup(rows, resize, single_use, selective) ==
    [tag |-> "ReplyKeyboardMarkup", rows |-> rows, resize |-> resize,
     single_use |-> single_use, selective |-> selective]

\* IsReplyMarkup comparing with the identifier of the buttons.
IsReplyMarkupWrongId(obj) == SUBCLASS_OF_ID(obj) = KeyboardButtonId

\* The try block: buttons.SUBCLASS_OF_ID == 0xe2e10ef2, False on AttributeError.
IsReplyMarkup(obj) == SUBCLASS_OF_ID(obj) = ReplyMarkupId

\* The two normalisations: a single button becomes a list, a flat list
\* becomes one row per button. The result is the sequence of rows, each the
\* sequence of its entries.
NormalizeButtons(obj) ==
    LET l == IF ~is_list_like(obj) THEN <<obj>> ELSE obj.items
    IN  IF ~is_list_like(l[1])
        THEN [i \in DOMAIN l |-> <<l[i]>>]
        ELSE [i \in DOMAIN l |-> l[i].items]

\* The locals before the loop.
InitAcc ==
    [is_inline |-> FALSE, is_normal |-> FALSE, resize |-> None,
     single_use |-> None, selective |-> None, rows |-> <<>>, current |-> <<>>]

\* MergeHints assigning every hint, None included.
MergeHintsOverwrite(acc, button) ==
    [acc EXCEPT !.resize = button.resize, !.single_use = button.single_use,
                !.selective = button.selective]

\* MergeHints keeping the first value set instead of the last.
MergeHintsFirstWins(acc, button) ==
    [acc EXCEPT
        !.resize = IF @ = None THEN button.resize ELSE @,
        !.single_use = IF @ = None THEN button.single_use ELSE @,
        !.selective = IF @ = None THEN button.selective ELSE @]

\* A Button descriptor's hints, each kept only when it is not None.
MergeHints(acc, button) ==
    [acc EXCEPT
        !.resize = IF button.resize # None THEN button.resize ELSE @,
        !.single_use = IF button.single_use # None THEN button.single_use ELSE @,
        !.selective = IF button.selective # None THEN button.selective ELSE @]

\* button = button.button, for a Button and for a MessageButton.
Unwrap(button) ==
    IF button.tag \in {"Button", "MessageButton"} THEN button.button ELSE button

\* is_inline |= inline; is_normal |= not inline
Classify(acc, button) ==
    LET inl == _is_inline(button)
    IN  [acc EXCEPT !.is_inline = @ \/ inl, !.is_normal = @ \/ ~inl]

\* current.append(button), for a KeyboardButton only.
Collect(acc, button) ==
    IF SUBCLASS_OF_ID(button) = KeyboardButtonId
    THEN [acc EXCEPT !.current = Append(@, button)]
    ELSE acc

\* The body of the inner loop.
VisitButton(acc, button) ==
    LET merged == IF button.tag = "Button" THEN MergeHints(acc, button) ELSE acc
        b == Unwrap(button)
    IN  Collect(Classify(merged, b), b)

RECURSIVE ScanRow(_, _)
ScanRow(acc, row) ==
    IF row = <<>> THEN acc
    ELSE ScanRow(VisitButton(acc, Head(row)), Tail(row))

\* CloseRow without its test: an empty row is appended too.
CloseRowAlways(acc) ==
    [acc EXCEPT !.rows = Append(@, KeyboardButtonRow(acc.current))]

\* if current: rows.append(KeyboardButtonRow(current))
CloseRow(acc) ==
    IF acc.current # <<>>
    THEN [acc EXCEPT !.rows = Append(@, KeyboardButtonRow(acc.current))]
    ELSE acc

RECURSIVE ScanRows(_, _)
ScanRows(acc, rows) ==
    IF rows = <<>> THEN acc
    ELSE ScanRows(CloseRow(ScanRow([acc EXCEPT !.current = <<>>], Head(rows))),
                  Tail(rows))

\* SelectMarkup without the inline_only check.
SelectMarkupNoInlineOnly(acc, inl_only) ==
    IF (acc.is_inline = acc.is_normal) /\ acc.is_normal
    THEN Raise("ValueError", "You cannot mix inline with normal buttons")
    ELSE IF acc.is_inline
    THEN Return(ReplyInlineMarkup(acc.rows))
    ELSE Return(ReplyKeyboardMarkup(acc.rows, acc.resize, acc.single_use,
                                    acc.selective))

\* SelectMarkup testing the wrong flag in the inline_only check.
SelectMarkupWrongFlag(acc, inl_only) ==
    IF inl_only /\ acc.is_inline
    THEN Raise("ValueError", "You cannot use non-inline buttons here")
    ELSE IF (acc.is_inline = acc.is_normal) /\ acc.is_normal
    THEN Raise("ValueError", "You cannot mix inline with normal buttons")
    ELSE IF acc.is_inline
    THEN Return(ReplyInlineMarkup(acc.rows))
    ELSE Return(ReplyKeyboardMarkup(acc.rows, acc.resize, acc.single_use,
                                    acc.selective))

\* The checks and the two returns that end the function.
SelectMarkup(acc, inl_only) ==
    IF inl_only /\ acc.is_normal
    THEN Raise("ValueError", "You cannot use non-inline buttons here")
    ELSE IF (acc.is_inline = acc.is_normal) /\ acc.is_normal
    THEN Raise("ValueError", "You cannot mix inline with normal buttons")
    ELSE IF acc.is_inline
    THEN Return(ReplyInlineMarkup(acc.rows))
    ELSE Return(ReplyKeyboardMarkup(acc.rows, acc.resize, acc.single_use,
                                    acc.selective))

build_reply_markup(obj, inl_only) ==
    IF ~Truthy(obj) THEN Return(NoneV)
    ELSE IF IsReplyMarkup(obj) THEN Return(obj)
    ELSE SelectMarkup(ScanRows(InitAcc, NormalizeButtons(obj)), inl_only)

(***************************************************************************)
(* The caller: it composes an input of build_reply_markup (None, a single  *)
(* button, a flat list or a list of rows) out of the constructors, calls   *)
(* build_reply_markup on it, and may pass the markup it got to it again.   *)
(***************************************************************************)
IsFlat(v) ==
    IF v.tag # "list" THEN FALSE
    ELSE IF v.items = <<>> THEN TRUE
    ELSE ~is_list_like(v.items[1])

IsGrid(v) ==
    IF v.tag # "list" THEN FALSE
    ELSE IF v.items = <<>> THEN FALSE
    ELSE is_list_like(v.items[1])

RECURSIVE Flatten(_)
Flatten(rows) == IF rows = <<>> THEN <<>> ELSE Head(rows) \o Flatten(Tail(rows))

\* Every entry of an input, in row-major, left-to-right order.
Entries(v) ==
    IF v.tag = "None" THEN <<>>
    ELSE IF v.tag # "list" THEN <<v>>
    ELSE IF IsGrid(v) THEN Flatten([i \in DOMAIN v.items |-> v.items[i].items])
    ELSE v.items

\* The text of the next button: its position in the input, as a digit.
NextLabel == Str(<<49 + Len(Entries(buttons))>>)

Hints == [resize : HintValues, single_use : HintValues, selective : HintValues]

\* The descriptors that set at most one hint.
OneHint ==
    {h \in Hints : Cardinality({f \in {"resize", "single_use", "selective"} :
                                    h[f] # None}) <= 1}

\* The descriptors that set no hint but the one named.
ResizeOnly == {h \in Hints : h.single_use = None /\ h.selective = None}

SingleUseOnly == {h \in Hints : h.resize = None /\ h.selective = None}

SelectiveOnly == {h \in Hints : h.resize = None /\ h.single_use = None}

Place(b) ==
    /\ pc = "compose"
    /\ Len(Entries(buttons)) < MaxButtons
    /\ \/ buttons.tag = "None" /\ buttons' = b
       \/ IsFlat(buttons) /\ buttons' = List(Append(buttons.items, b))
       \/ /\ IsGrid(buttons)
          /\ buttons' = List([buttons.items EXCEPT
                                 ![Len(buttons.items)] = List(Append(@.items, b))])
    /\ UNCHANGED <<inline_only, pc, result, arg_text, arg_data, made>>

NewRow ==
    /\ pc = "compose"
    /\ buttons.tag = "list"
    /\ IF buttons.items = <<>> THEN TRUE ELSE IsGrid(buttons)
    /\ Len(buttons.items) < MaxRows
    /\ buttons' = List(Append(buttons.items, List(<<>>)))
    /\ UNCHANGED <<inline_only, pc, result, arg_text, arg_data, made>>

AddInline == Place(inline(NextLabel, NoneV).value)

AddSwitchInline == Place(switch_inline(NextLabel, Str(<<>>), FALSE))

AddUrl == Place(url(NextLabel, NoneV))

AddAuth == Place(auth(NextLabel, NoneV, NoneV, FALSE, NoneV))

AddMention == Place(mention(NextLabel, NoneV))

AddBuy == Place(buy(NextLabel))

AddGame == Place(game(NextLabel))

AddText(H) ==
    \E h \in H : Place(text(NextLabel, h.resize, h.single_use, h.selective))

AddRequestLocation(H) ==
    \E h \in H :
        Place(request_location(NextLabel, h.resize, h.single_use, h.selective))

AddRequestPhone(H) ==
    \E h \in H :
        Place(request_phone(NextLabel, h.resize, h.single_use, h.selective))

AddRequestPoll(H) ==
    \E h \in H :
        Place(request_poll(NextLabel, FALSE, h.resize, h.single_use, h.selective))

AddClear == Place(clear(None))

AddForceReply == Place(force_reply(None, None, NoneV))

\* A button taken from a received message.
AddMessageButton ==
    \E cls \in {"KeyboardButtonUserProfile", "KeyboardButton"} :
        Place(MessageButton([tag |-> cls, text |-> NextLabel]))

Call ==
    /\ pc = "compose"
    /\ \E io \in BOOLEAN :
          /\ inline_only' = io
          /\ result' = build_reply_markup(buttons, io)
    /\ pc' = "built"
    /\ UNCHANGED <<buttons, arg_text, arg_data, made>>

\* The caller keeps what build_reply_markup returned and passes it again.
Reuse ==
    /\ pc = "built"
    /\ result.tag = "return"
    /\ buttons' = result.value
    /\ result' = NotCalled
    /\ pc' = "compose"
    /\ UNCHANGED <<inline_only, arg_text, arg_data, made>>

Init ==
    /\ buttons \in {NoneV, List(<<>>)}
    /\ inline_only = FALSE
    /\ pc = "compose"
    /\ result = NotCalled
    /\ arg_text = Str(<<>>)
    /\ arg_data = NoneV
    /\ made = NotCalled

Next ==
    \/ AddInline
    \/ AddSwitchInline
    \/ AddUrl
    \/ AddAuth
    \/ AddMention
    \/ AddBuy
    \/ AddGame
    \/ AddText(OneHint)
    \/ AddRequestLocation(ResizeOnly)
    \/ AddRequestPhone(SingleUseOnly)
    \/ AddRequestPoll(SelectiveOnly)
    \/ AddClear
    \/ AddForceReply
    \/ AddMessageButton
    \/ NewRow
    \/ Call
    \/ Reuse

Spec == Init /\ [][Next]_vars

(***************************************************************************)
(* The keyboard constructors with every combination of the three hints.    *)
(***************************************************************************)
NextHints ==
    \/ AddText(Hints)
    \/ AddMessageButton
    \/ NewRow
    \/ Call

SpecHints == Init /\ [][NextHints]_vars

(***************************************************************************)
(* Button.inline on its own: a text and a payload (omitted, bytes or str)  *)
(* of up to DataLimit + MaxOver code points or bytes.                      *)
(***************************************************************************)
Repeat(c, n) == [i \in 1..n |-> c]

Pattern(n, seed) == [i \in 1..n |-> (seed + i) % 256]

\* Texts of one, of two and of three bytes a code point: "A", e acute, euro.
CodePoints == {65, 233, 8364}

Texts == {Str(Repeat(c, n)) : c \in CodePoints, n \in 0..(DataLimit + MaxOver)}

Payloads ==
    {Bytes(Pattern(n, seed)) : n \in 0..(DataLimit + MaxOver), seed \in 0..MaxSeed}

InitInline ==
    /\ buttons = NoneV
    /\ inline_only = FALSE
    /\ pc = "inline"
    /\ result = NotCalled
    /\ arg_text \in {Str(Repeat(c, n)) : c \in CodePoints,
                                        n \in {0, 1, DataLimit, DataLimit + MaxOver}}
    /\ arg_data \in {NoneV} \cup Payloads \cup Texts
    /\ made = NotCalled

CallInline ==
    /\ pc = "inline"
    /\ made' = inline(arg_text, arg_data)
    /\ pc' = "made"
    /\ UNCHANGED <<buttons, inline_only, result, arg_text, arg_data>>

NextInline == CallInline

SpecInline == InitInline /\ [][NextInline]_vars

(***************************************************************************)
(* The vocabulary of the properties.                                       *)
(***************************************************************************)
\* The two categories as the documentation of class Button gives them:
\* inline, switch_inline, url, auth, buy, game and mention make inline
\* buttons (a button of a received message that links to a profile is a
\* KeyboardButtonUserProfile); text, request_location, request_phone and
\* request_poll make keyboard buttons.
ListedInline ==
    {"KeyboardButtonCallback", "KeyboardButtonSwitchInline", "KeyboardButtonUrl",
     "InputKeyboardButtonUrlAuth", "KeyboardButtonBuy", "KeyboardButtonGame"}

InlineCategory ==
    ListedInline \cup {"InputKeyboardButtonUserProfile", "KeyboardButtonUserProfile"}

KeyboardCategory ==
    {"KeyboardButton", "KeyboardButtonRequestGeoLocation",
     "KeyboardButtonRequestPhone", "KeyboardButtonRequestPoll"}

\* The low-level button an entry of the input stands for.
LowLevel(e) == IF e.tag \in {"Button", "MessageButton"} THEN e.button ELSE e

\* The entries of the input of the call, and their low-level buttons.
Ent == Entries(buttons)

InputButtons == [i \in DOMAIN Ent |-> LowLevel(Ent[i])]

HasCategory(C) == \E i \in DOMAIN InputButtons : InputButtons[i].tag \in C

AllOf(C) == \A i \in DOMAIN InputButtons : InputButtons[i].tag \in C

Built == pc = "built"

Returned == Built /\ result.tag = "return"

RaisedValueError == Built /\ result.tag = "raise" /\ result.exc = "ValueError"

\* The call was given buttons, not a markup built before.
GivenButtons == buttons.tag \notin ReplyMarkupClasses

\* The call assembled a keyboard markup.
KeyboardBuilt ==
    Returned /\ GivenButtons /\ result.value.tag = "ReplyKeyboardMarkup"

\* The buttons of a markup, row after row.
RowButtons(m) == Flatten([i \in DOMAIN m.rows |-> m.rows[i].buttons])

(***************************************************************************)
(* C1: every input that holds at least one inline-category button and at   *)
(* least one keyboard-category button makes build_reply_markup raise       *)
(* ValueError, wherever the two buttons are and whatever inline_only is.   *)
(***************************************************************************)
MixedCategoriesRaise ==
    (Built /\ HasCategory(InlineCategory) /\ HasCategory(KeyboardCategory))
        => RaisedValueError

(***************************************************************************)
(* C2: with inline_only = True, build_reply_markup raises ValueError when  *)
(* a keyboard-category button is anywhere in the input, and returns an     *)
(* inline markup when the input holds buttons and all of them are made by  *)
(* inline, switch_inline, url, auth, buy or game.                          *)
(***************************************************************************)
InlineOnlyEnforced ==
    (Built /\ inline_only) =>
        /\ HasCategory(KeyboardCategory) => RaisedValueError
        /\ (Ent # <<>> /\ AllOf(ListedInline)) =>
               (Returned /\ result.value.tag = "ReplyInlineMarkup")

\* Two keyboard buttons and inline_only = True: the call raised.
InlineOnlyEnforcedWitness ==
    /\ Built /\ inline_only
    /\ Len(Ent) >= 2
    /\ AllOf(KeyboardCategory)
    /\ RaisedValueError

(***************************************************************************)
(* C3: for a payload d given as bytes, Button.inline(text, d) raises when  *)
(* len(d) > 64 and otherwise, the empty payload included, returns a        *)
(* callback button whose data is exactly d.                                *)
(***************************************************************************)
InlineKeepsBytes ==
    (pc = "made" /\ arg_data.tag = "bytes") =>
        IF Len(arg_data.v) > DataLimit
        THEN made.tag = "raise"
        ELSE made = Return(KeyboardButtonCallback(arg_text, arg_data))

(***************************************************************************)
(* C4: build_reply_markup returns None for None and for the empty list,    *)
(* returns a reply markup it is given unchanged for either inline_only,    *)
(* and so building again what a call returned returns the same.            *)
(***************************************************************************)
PassThroughIdempotent ==
    Built =>
        /\ (buttons.tag = "None" \/ (buttons.tag = "list" /\ buttons.items = <<>>))
               => result = Return(NoneV)
        /\ buttons.tag \in ReplyMarkupClasses => result = Return(buttons)
        /\ result.tag = "return" =>
               \A io \in BOOLEAN : build_reply_markup(result.value, io) = result

\* A keyboard markup with rows, built before, passed with inline_only = True.
PassThroughIdempotentWitness ==
    /\ Built /\ inline_only
    /\ buttons.tag = "ReplyKeyboardMarkup"
    /\ buttons.rows # <<>>
    /\ result = Return(buttons)

(***************************************************************************)
(* C5: the rows of the markup are those of the input: one row of one       *)
(* button for a single button, one row per button for a flat list, and for *)
(* a list of rows one row per non-empty input row, in the same order, with *)
(* that row's unwrapped buttons from left to right.                        *)
(***************************************************************************)
RowOf(entries) == KeyboardButtonRow([j \in DOMAIN entries |-> LowLevel(entries[j])])

NonEmptyRow(r) == r.items # <<>>

ExpectedRows ==
    IF buttons.tag # "list" THEN <<RowOf(<<buttons>>)>>
    ELSE IF IsGrid(buttons)
    THEN LET kept == SelectSeq(buttons.items, NonEmptyRow)
         IN  [i \in DOMAIN kept |-> RowOf(kept[i].items)]
    ELSE [i \in DOMAIN buttons.items |-> RowOf(<<buttons.items[i]>>)]

RowsPreserved ==
    (Returned /\ GivenButtons /\ result.value.tag # "None"
        /\ AllOf(KeyboardButtonClasses))
        => result.value.rows = ExpectedRows

\* A list of an empty row and a row of two buttons gave one row of two.
RowsPreservedWitness ==
    /\ Returned /\ IsGrid(buttons)
    /\ Len(buttons.items) = 2
    /\ buttons.items[1].items = <<>>
    /\ Len(buttons.items[2].items) = 2
    /\ Len(result.value.rows) = 1
    /\ Len(result.value.rows[1].buttons) = 2

(***************************************************************************)
(* C6: the button Button.mention makes is an inline button for             *)
(* build_reply_markup: an input of mention buttons, alone or with buttons  *)
(* made by inline, url, switch_inline, auth, buy or game, gives an inline  *)
(* markup and does not raise, for either inline_only.                      *)
(***************************************************************************)
MentionBuildsInline ==
    (Built /\ GivenButtons
        /\ HasCategory({"InputKeyboardButtonUserProfile"})
        /\ AllOf(ListedInline \cup {"InputKeyboardButtonUserProfile"}))
        => (Returned /\ result.value.tag = "ReplyInlineMarkup")

(***************************************************************************)
(* C7, as claimed: when a keyboard markup is built and any descriptor of   *)
(* the input carries resize = True, the markup has resize = True.          *)
(***************************************************************************)
AnyResizeTrueSurfaces ==
    (KeyboardBuilt
        /\ \E i \in DOMAIN Ent : Ent[i].tag = "Button" /\ Ent[i].resize = True)
        => result.value.resize = True

(***************************************************************************)
(* C7, amended: when a keyboard markup is built and a descriptor carries   *)
(* resize = True with no descriptor after it, in row-major order, that     *)
(* carries resize = False, the markup has resize = True.                   *)
(***************************************************************************)
LastResizeTrueSurfaces ==
    (KeyboardBuilt
        /\ \E i \in DOMAIN Ent :
              /\ Ent[i].tag = "Button" /\ Ent[i].resize = True
              /\ \A j \in DOMAIN Ent :
                    (j > i /\ Ent[j].tag = "Button") => Ent[j].resize # False)
        => result.value.resize = True

\* resize = True on the first descriptor, unset on the second.
LastResizeTrueSurfacesWitness ==
    /\ KeyboardBuilt
    /\ Len(Ent) = 2
    /\ Ent[1].tag = "Button" /\ Ent[1].resize = True
    /\ Ent[2].tag = "Button" /\ Ent[2].resize = None
    /\ result.value.resize = True

(***************************************************************************)
(* C8: a markup build_reply_markup assembles holds buttons of one          *)
(* category: an inline markup only inline-category buttons, a keyboard     *)
(* markup only keyboard-category buttons.                                  *)
(***************************************************************************)
MarkupHomogeneous ==
    (Returned /\ GivenButtons) =>
        /\ result.value.tag = "ReplyInlineMarkup" =>
               \A i \in DOMAIN RowButtons(result.value) :
                   RowButtons(result.value)[i].tag \in InlineCategory
        /\ result.value.tag = "ReplyKeyboardMarkup" =>
               \A i \in DOMAIN RowButtons(result.value) :
                   RowButtons(result.value)[i].tag \in KeyboardCategory

(***************************************************************************)
(* C9: in a keyboard markup that is built, each of resize, single_use and  *)
(* selective is the value of the last descriptor, in row-major order, that *)
(* sets it, and None when no descriptor sets it.                           *)
(***************************************************************************)
RECURSIVE LastSet(_, _, _)
LastSet(entries, f, i) ==
    IF i = 0 THEN None
    ELSE IF entries[i].tag = "Button" /\ entries[i][f] # None THEN entries[i][f]
    ELSE LastSet(entries, f, i - 1)

HintsLastSetWins ==
    KeyboardBuilt =>
        \A f \in {"resize", "single_use", "selective"} :
            result.value[f] = LastSet(Ent, f, Len(Ent))

\* The second descriptor leaves resize unset and sets the other two anew.
HintsLastSetWinsWitness ==
    /\ KeyboardBuilt
    /\ Len(Ent) = 2
    /\ Ent[1].tag = "Button" /\ Ent[2].tag = "Button"
    /\ Ent[1].resize = True /\ Ent[1].single_use = False /\ Ent[1].selective = None
    /\ Ent[2].resize = None /\ Ent[2].single_use = True /\ Ent[2].selective = False
    /\ result.value.resize = True
    /\ result.value.single_use = True
    /\ result.value.selective = False

(***************************************************************************)
(* C10, as claimed: a call with inline_only = True that returns, returns   *)
(* None or an inline markup.                                               *)
(***************************************************************************)
InlineOnlyNeverKeyboard ==
    (Returned /\ inline_only) => result.value.tag \in {"None", "ReplyInlineMarkup"}

(***************************************************************************)
(* C10, amended: a call with inline_only = True that returns, returns      *)
(* None, or the reply markup it was given, or an inline markup without a   *)
(* keyboard-category button, or, when the input holds no entry at all (a   *)
(* list of empty rows), a keyboard markup without rows and without hints.  *)
(***************************************************************************)
InlineOnlyResult ==
    (Returned /\ inline_only) =>
        \/ result.value.tag = "None"
        \/ ~GivenButtons /\ result.value = buttons
        \/ /\ result.value.tag = "ReplyInlineMarkup"
           /\ \A i \in DOMAIN RowButtons(result.value) :
                  RowButtons(result.value)[i].tag \notin KeyboardCategory
        \/ /\ Ent = <<>>
           /\ result.value = ReplyKeyboardMarkup(<<>>, None, None, None)

\* A list of empty rows and inline_only = True: an empty keyboard markup.
InlineOnlyResultWitness ==
    /\ Returned /\ inline_only
    /\ IsGrid(buttons)
    /\ result.value.tag = "ReplyKeyboardMarkup"

====
